---- MODULE Spec2Model ----
(***************************************************************************)
(* Model of the confluent_kafka Producer / Consumer shims                   *)
(* (src/confluent_kafka/producer.py, src/confluent_kafka/consumer.py) over  *)
(* the native client core (confluent_kafka.cimpl).                          *)
(*                                                                          *)
(* The shim methods are translated from the Python source.  The native      *)
(* core (cimpl.Producer / cimpl.Consumer: produce, poll, flush, consume,    *)
(* close, the event queue and its drain) is not part of the Python source;  *)
(* it is modelled from the design document and the docstrings.              *)
(***************************************************************************)
EXTENDS Integers, Sequences, FiniteSets, TLC

(* ------------------------------ bounds --------------------------------- *)
\* messages the native producer holds in flight (queued, or sent with the
\* delivery report not yet served) before produce() fails with BufferError
MaxQueue == 1
\* messages produced and not yet fetched by the consumer
MaxInTransit == 1
\* stats, error, throttle and commit events waiting in one client's queue
MaxEvents == 1

(* ------------------------------ values --------------------------------- *)
\* Python None, for hooks and callbacks
None == "None"

\* payloads: None, an application object, or a byte string
NonePayload == [kind |-> "none", n |-> 0]
Obj(n) == [kind |-> "obj", n |-> n]
Bytes(n) == [kind |-> "bytes", n |-> n]

Topics == {"t1", "t2"}
ByteVals == 0 .. 3
NumByteVals == Cardinality(ByteVals)
TopByte == NumByteVals - 1

\* keys and values the application hands to produce()
AppKeys == {NonePayload, Obj(1)}
AppValues == {NonePayload, Obj(0)}

\* the result of calling a user hook: it returns a value or it raises
Returned(v) == [ok |-> TRUE, val |-> v]
Raised == [ok |-> FALSE, val |-> NonePayload]

(* ------------------------- user codec hooks ---------------------------- *)
\* The hooks are user functions (topic, payload) -> payload.  Two concrete
\* serializers and their deserializers stand for them:
\*   "shift"  adds a topic-dependent salt, maps None to None;
\*   "flip"   mirrors the byte range, raises on None.
Salt(topic) == IF topic = "t1" THEN 1 ELSE 2

SerializerNames == {"shift", "flip"}
DeserializerNames == {"unshift", "flip"}

Serialize(s, topic, v) ==
    IF s = "shift"
    THEN IF v.kind = "none" THEN Returned(NonePayload)
         ELSE Returned(Bytes((v.n + Salt(topic)) % NumByteVals))
    ELSE IF v.kind = "none" THEN Raised
         ELSE Returned(Bytes(TopByte - v.n))

Deserialize(d, topic, b) ==
    IF d = "unshift"
    THEN IF b.kind = "none" THEN Returned(NonePayload)
         ELSE Returned(Obj((b.n + NumByteVals - Salt(topic)) % NumByteVals))
    ELSE IF b.kind = "none" THEN Raised
         ELSE Returned(Obj(TopByte - b.n))

\* D undoes S on the topic: S accepts every object, and D maps the bytes of
\* every payload S accepts back to that payload
IsInverse(s, d, topic) ==
    /\ \A n \in ByteVals : Serialize(s, topic, Obj(n)).ok
    /\ \A v \in {NonePayload} \cup {Obj(n) : n \in ByteVals} :
          Serialize(s, topic, v).ok
            => Deserialize(d, topic, Serialize(s, topic, v).val) = Returned(v)

(* ------------------------------ inputs --------------------------------- *)
\* instance-scoped hooks bound at construction, call-scoped overrides
InstanceSerializers == {None, "shift"}
InstanceDeserializers == {None, "unshift"}
SerializerArgs == {None, "flip"}
DeserializerArgs == {None, "flip"}

\* produce()'s two names for the delivery callback
OnDeliveryArgs == {None, "dr_on_delivery"}
CallbackArgs == {None, "dr_callback"}

\* callback keyword arguments of the two constructors
ProducerKinds == {"error_cb", "stats_cb", "throttle_cb"}
ConsumerKinds == {"on_commit", "stats_cb", "throttle_cb"}
NoCallbacks(kinds) == [k \in kinds |-> None]
AllCallbacks(kinds) == [k \in kinds |-> "user_" \o k]
ProducerCtorArgs == <<NoCallbacks(ProducerKinds), AllCallbacks(ProducerKinds)>>
ConsumerCtorArgs == <<NoCallbacks(ConsumerKinds), AllCallbacks(ConsumerKinds)>>

\* the native core's ceiling on consume()'s num_messages, and the values
\* of num_messages the application passes
NumMessagesCeiling == 1000000
NumMessagesArgs == {1, NumMessagesCeiling, NumMessagesCeiling + 1, 2 * NumMessagesCeiling}

(* ------------------------------ state ---------------------------------- *)
VARIABLES
    key_serializer,      \* Producer.key_serializer slot
    value_serializer,    \* Producer.value_serializer slot
    key_deserializer,    \* Consumer.key_deserializer slot
    value_deserializer,  \* Consumer.value_deserializer slot
    ctorArgs,            \* callbacks given to the two constructors
    registered,          \* callbacks the native cores were constructed with
    closed,              \* the consumer's native handle has been closed
    outq,                \* native producer: messages awaiting transmission
    log,                 \* broker: messages transmitted and not yet fetched
    events,              \* per client: events queued by the background thread
    appPc,               \* the driving call the application thread is inside
    call,                \* arguments of that call
    running,             \* the user callbacks executing now
    deliveries,          \* native producer: in-flight messages' callbacks
    lastCall             \* the last shim call that finished, and its outcome

vars == <<key_serializer, value_serializer, key_deserializer, value_deserializer,
          ctorArgs, registered, closed, outq, log, events, appPc, call,
          running, deliveries, lastCall>>

hooks == <<key_serializer, value_serializer, key_deserializer, value_deserializer,
           ctorArgs, registered>>

Clients == {"producer", "consumer"}

\* Python None as the result of the native poll (timeout)
NoMessage == [none |-> TRUE, topic |-> "", key |-> NonePayload,
              value |-> NonePayload, error |-> None]
NoCall == [op |-> "none", client |-> "none", kh |-> None, vh |-> None, num |-> 0]

\* what the producing application passed for a message, and the serializers
\* produce() applied to it (kept with the message to state the round trip)
NoOrigin == [okey |-> NonePayload, ovalue |-> NonePayload, ks |-> None, vs |-> None]

\* one in-flight slot of the native producer: the two callback arguments of
\* the produce() call, the callback the native produce was given, and the
\* callbacks invoked for the message so far
FreeSlot == [on_delivery |-> None, callback |-> None, cb |-> None,
             state |-> "free", calls |-> <<>>]

InitCall == [op |-> "none", result |-> "return", native |-> FALSE, fetched |-> FALSE,
             hookCalls |-> <<>>, args |-> NoCall, cb |-> None,
             nativeNum |-> 0, raw |-> NoMessage, out |-> NoMessage,
             batch |-> <<>>, origin |-> NoOrigin]

(* --------------------------- constructors ------------------------------ *)
\* Producer.__init__: the native constructor receives conf and logger only
ProducerNativeInit(args) == NoCallbacks(ProducerKinds)

\* Consumer.__init__: the native constructor receives conf and on_commit only
ConsumerNativeInit(args) ==
    [NoCallbacks(ConsumerKinds) EXCEPT !["on_commit"] = args["on_commit"]]

\* the state after both constructors ran
Constructed(ks, vs, kd, vd, pa, ca) ==
    /\ key_serializer = ks
    /\ value_serializer = vs
    /\ key_deserializer = kd
    /\ value_deserializer = vd
    /\ ctorArgs = [producer |-> pa, consumer |-> ca]
    /\ registered = [producer |-> ProducerNativeInit(pa),
                     consumer |-> ConsumerNativeInit(ca)]
    /\ closed = FALSE
    /\ outq = <<>>
    /\ log = <<>>
    /\ events = [c \in Clients |-> <<>>]
    /\ appPc = "idle"
    /\ call = NoCall
    /\ running = {}
    /\ deliveries = [i \in 1 .. MaxQueue |-> FreeSlot]
    /\ lastCall = InitCall

(* --------------------------- Producer.produce -------------------------- *)
\* (mutation of ResolveOnDelivery: callback takes precedence)
ResolveOnDeliveryCallbackWins(on_delivery, callback) ==
    IF callback /= None THEN callback ELSE on_delivery

\* "on_delivery is an alias for callback and take precedence"
ResolveOnDelivery(on_delivery, callback) ==
    IF callback /= None /\ on_delivery = None THEN callback ELSE on_delivery

\* (mutation of ResolveHook: the instance hook takes precedence)
ResolveHookInstanceFirst(override, instance) ==
    IF instance /= None THEN instance ELSE override

\* "parameter overrides take precedence over instance functions"
ResolveHook(override, instance) ==
    IF override = None THEN instance ELSE override

\* if key_serializer: key = key_serializer(topic, key)
ApplySerializer(h, topic, payload) ==
    IF h /= None THEN Serialize(h, topic, payload) ELSE Returned(payload)

HookCall(slot, h, topic, payload) ==
    IF h /= None THEN <<[slot |-> slot, hook |-> h, topic |-> topic, arg |-> payload]>>
    ELSE <<>>

\* (mutation of ProduceDelegates: a raising value serializer is swallowed)
ProduceDelegatesKeyOnly(kres, vres) == kres.ok

\* control reaches the native produce only when no serializer raised
ProduceDelegates(kres, vres) == kres.ok /\ vres.ok

\* the slots of the native producer that hold no in-flight message
FreeSlots == {i \in DOMAIN deliveries : deliveries[i].state = "free"}

\* native produce: the payloads must be bytes or None, the queue must have room
NativeProduceResult(key, value) ==
    IF key.kind = "obj" \/ value.kind = "obj" THEN "TypeError"
    ELSE IF FreeSlots = {} THEN "BufferError"
    ELSE "return"

Produce(topic, value, key, on_delivery, callback, ks_arg, vs_arg) ==
    LET od == ResolveOnDelivery(on_delivery, callback)
        ks == ResolveHook(ks_arg, key_serializer)
        kres == ApplySerializer(ks, topic, key)
        vs == ResolveHook(vs_arg, value_serializer)
        \* a raising key serializer leaves the value serializer uncalled
        vres == IF kres.ok THEN ApplySerializer(vs, topic, value) ELSE Raised
        calls == HookCall("key", ks, topic, key)
                 \o (IF kres.ok THEN HookCall("value", vs, topic, value) ELSE <<>>)
        delegates == ProduceDelegates(kres, vres)
        nres == NativeProduceResult(kres.val, vres.val)
        id == CHOOSE i \in FreeSlots : \A j \in FreeSlots : i <= j
        args == [topic |-> topic, value |-> value, key |-> key,
                 on_delivery |-> on_delivery, callback |-> callback,
                 kh |-> ks_arg, vh |-> vs_arg]
        sent == [none |-> FALSE, topic |-> topic, key |-> kres.val,
                 value |-> vres.val, error |-> None]
        queued == [id |-> id, topic |-> topic, key |-> kres.val, value |-> vres.val,
                   on_delivery |-> od,
                   okey |-> key, ovalue |-> value, ks |-> ks, vs |-> vs]
    IN
    /\ appPc = "idle"
    /\ Len(outq) + Len(log) < MaxInTransit
    /\ lastCall' = [InitCall EXCEPT
                      !.op = "produce",
                      !.result = IF delegates THEN nres ELSE "SerializerRaised",
                      !.native = delegates,
                      !.hookCalls = calls,
                      !.args = args,
                      !.cb = IF delegates THEN od ELSE None,
                      !.out = IF delegates THEN sent ELSE NoMessage]
    /\ IF delegates /\ nres = "return"
       THEN /\ outq' = Append(outq, queued)
            /\ deliveries' = [deliveries EXCEPT ![id] =
                   [on_delivery |-> on_delivery, callback |-> callback, cb |-> od,
                    state |-> "queued", calls |-> <<>>]]
       ELSE UNCHANGED <<outq, deliveries>>
    /\ UNCHANGED <<hooks, closed, log, events, appPc, call, running>>

(* ------------------- native core: background thread -------------------- *)
\* the callback an event is for: the one produce() registered for a delivery
\* report, else the one the native constructor was given for the event's kind
CallbackFor(client, ev) ==
    IF ev.kind = "delivery" THEN ev.cb ELSE registered[client][ev.kind]

\* (mutation of DispatchOnCompletion: the background thread runs the callback)
DispatchOnCompletionInline(client, ev) ==
    [queue |-> events,
     run |-> running \cup {[client |-> client, kind |-> ev.kind,
                            cb |-> CallbackFor(client, ev), id |-> ev.id,
                            thread |-> "background"]}]

\* an event completed by the background thread is appended to the client's
\* queue; no callback runs on the enqueue path
DispatchOnCompletion(client, ev) ==
    [queue |-> [events EXCEPT ![client] = Append(@, ev)], run |-> running]

\* the background thread takes the head of the outbound queue, transmits it
\* (or gives up on it) and completes its delivery report
BackgroundTransmit ==
    /\ outq /= <<>>
    /\ LET m == Head(outq)
           d == DispatchOnCompletion("producer",
                    [kind |-> "delivery", cb |-> m.on_delivery, id |-> m.id])
       IN /\ outq' = Tail(outq)
          /\ \E delivered \in BOOLEAN :
                log' = IF delivered
                       THEN Append(log, [topic |-> m.topic, key |-> m.key,
                                         value |-> m.value, okey |-> m.okey,
                                         ovalue |-> m.ovalue, ks |-> m.ks, vs |-> m.vs])
                       ELSE log
          /\ IF m.on_delivery /= None
             THEN /\ events' = d.queue
                  /\ running' = d.run
                  /\ deliveries' = [deliveries EXCEPT ![m.id].state = "reported"]
             ELSE /\ deliveries' = [deliveries EXCEPT ![m.id] = FreeSlot]
                  /\ UNCHANGED <<events, running>>
    /\ UNCHANGED <<hooks, closed, appPc, call, lastCall>>

\* the background thread completes a stats, error, throttle or commit event
WaitingEvents(client) == SelectSeq(events[client], LAMBDA e : e.kind /= "delivery")

BackgroundEvent(client, kind) ==
    /\ Len(WaitingEvents("producer")) + Len(WaitingEvents("consumer")) < MaxEvents
    /\ client = "consumer" => ~closed
    /\ LET d == DispatchOnCompletion(client, [kind |-> kind, cb |-> None, id |-> 0])
       IN /\ events' = d.queue
          /\ running' = d.run
    /\ UNCHANGED <<hooks, closed, outq, log, appPc, call, deliveries, lastCall>>

(* --------------------- native core: the drain -------------------------- *)
\* the driving calls during which the native core serves queued callbacks:
\* poll and flush, and the consumer's batch consume ("Consume messages,
\* calls callbacks and returns a list of messages")
ServingCalls == {"poll", "flush", "consume"}

\* inside a driving call the application thread takes the next queued event
\* and enters its callback; an event without a callback is dropped
ServeStart ==
    /\ appPc \in ServingCalls
    /\ running = {}
    /\ events[call.client] /= <<>>
    /\ LET ev == Head(events[call.client])
           cb == CallbackFor(call.client, ev)
           run == [client |-> call.client, kind |-> ev.kind, cb |-> cb,
                   id |-> ev.id, thread |-> "app"]
       IN /\ events' = [events EXCEPT ![call.client] = Tail(@)]
          /\ running' = IF cb /= None THEN {run} ELSE {}
          /\ deliveries' = IF ev.kind = "delivery"
                           THEN [deliveries EXCEPT ![ev.id].state = "done",
                                                   ![ev.id].calls = Append(@, cb)]
                           ELSE deliveries
    /\ UNCHANGED <<hooks, closed, outq, log, appPc, call, lastCall>>

\* a callback returns; after a delivery callback the native producer lets
\* go of the message
ServeFinish ==
    /\ \E r \in running :
          /\ running' = running \ {r}
          /\ deliveries' = IF r.kind = "delivery"
                           THEN [deliveries EXCEPT ![r.id] = FreeSlot]
                           ELSE deliveries
    /\ UNCHANGED <<hooks, closed, outq, log, events, appPc, call, lastCall>>

(* -------------------- native producer: poll, flush --------------------- *)
ProducerEnter(op) ==
    /\ appPc = "idle"
    /\ appPc' = op
    /\ call' = [NoCall EXCEPT !.op = op, !.client = "producer"]
    /\ UNCHANGED <<hooks, closed, outq, log, events, running, deliveries, lastCall>>

ProducerPoll == ProducerEnter("poll")

ProducerFlush == ProducerEnter("flush")

\* poll returns at its timeout; flush returns when nothing is left in
\* flight, or at its timeout
ProducerReturn ==
    /\ appPc \in {"poll", "flush"}
    /\ call.client = "producer"
    /\ running = {}
    /\ appPc' = "idle"
    /\ call' = NoCall
    /\ UNCHANGED <<hooks, closed, outq, log, events, running, deliveries, lastCall>>

(* ---------------------------- Consumer.poll ---------------------------- *)
\* (mutation of PassThrough: only the null result is passed through)
PassThroughNullOnly(msg) == msg.none

\* if not msg or msg.error(): return msg
PassThrough(msg) == msg.none \/ msg.error /= None

\* if key_deserializer: msg.set_key(key_deserializer(topic, msg.key()))
ApplyDeserializer(h, topic, payload) ==
    IF h /= None THEN Deserialize(h, topic, payload) ELSE Returned(payload)

\* (mutation of ValueDeserializerInput: the value hook is handed the key)
ValueDeserializerInputKey(msg) == msg.key

\* the payload each resolved deserializer is handed
KeyDeserializerInput(msg) == msg.key
ValueDeserializerInput(msg) == msg.value

\* what the native poll can return: None at the timeout, an error event,
\* or the next message of the log
ErrorEvent == [none |-> FALSE, topic |-> "t1", key |-> NonePayload,
               value |-> Bytes(0), error |-> "_PARTITION_EOF"]
DataMessage(e) == [none |-> FALSE, topic |-> e.topic, key |-> e.key,
                   value |-> e.value, error |-> None]
NativePollResults ==
    {NoMessage, ErrorEvent} \cup (IF log /= <<>> THEN {DataMessage(Head(log))} ELSE {})

\* the native poll refuses a closed consumer; otherwise the application
\* thread is inside poll, where queued callbacks are served
ConsumerPoll(kdArgs, vdArgs) ==
    /\ appPc = "idle"
    /\ IF closed
       THEN /\ \E kd_arg \in kdArgs, vd_arg \in vdArgs :
                 lastCall' = [InitCall EXCEPT
                                !.op = "poll", !.result = "RuntimeError", !.native = TRUE,
                                !.args = [NoCall EXCEPT !.op = "poll", !.client = "consumer",
                                                        !.kh = kd_arg, !.vh = vd_arg]]
            /\ UNCHANGED <<appPc, call>>
       ELSE /\ appPc' = "poll"
            /\ call' = [NoCall EXCEPT !.op = "poll", !.client = "consumer"]
            /\ UNCHANGED lastCall
    /\ UNCHANGED <<hooks, closed, outq, log, events, running, deliveries>>

\* the native poll returns and the shim deserializes a data message with
\* the hooks resolved from the call's arguments and the instance
ConsumerPollReturn(kdArgs, vdArgs) ==
    /\ appPc = "poll"
    /\ call.client = "consumer"
    /\ running = {}
    /\ \E msg \in NativePollResults, kd_arg \in kdArgs, vd_arg \in vdArgs :
         LET isData == ~msg.none /\ msg.error = None
             args == [call EXCEPT !.kh = kd_arg, !.vh = vd_arg]
             topic == msg.topic
             kd == ResolveHook(kd_arg, key_deserializer)
             kin == KeyDeserializerInput(msg)
             kres == ApplyDeserializer(kd, topic, kin)
             vd == ResolveHook(vd_arg, value_deserializer)
             vin == ValueDeserializerInput(msg)
             \* a raising key deserializer leaves the value deserializer uncalled
             vres == IF kres.ok THEN ApplyDeserializer(vd, topic, vin) ELSE Raised
             calls == HookCall("key", kd, topic, kin)
                      \o (IF kres.ok THEN HookCall("value", vd, topic, vin) ELSE <<>>)
             raised == ~(kres.ok /\ vres.ok)
             origin == IF isData
                       THEN [okey |-> Head(log).okey, ovalue |-> Head(log).ovalue,
                             ks |-> Head(log).ks, vs |-> Head(log).vs]
                       ELSE NoOrigin
         IN
         /\ log' = IF isData THEN Tail(log) ELSE log
         /\ lastCall' =
              IF PassThrough(msg)
              THEN [InitCall EXCEPT !.op = "poll", !.native = TRUE, !.args = args,
                                    !.fetched = isData, !.raw = msg, !.out = msg,
                                    !.origin = origin]
              ELSE [InitCall EXCEPT
                      !.op = "poll", !.native = TRUE, !.args = args,
                      !.fetched = isData, !.raw = msg,
                      !.result = IF raised THEN "DeserializerRaised" ELSE "return",
                      !.hookCalls = calls,
                      !.out = IF raised THEN NoMessage
                              ELSE [msg EXCEPT !.key = kres.val, !.value = vres.val],
                      !.origin = origin]
    /\ appPc' = "idle"
    /\ call' = NoCall
    /\ UNCHANGED <<hooks, closed, outq, events, running, deliveries>>

(* --------------------------- Consumer.consume -------------------------- *)
\* if self.key_deserializer or self.value_deserializer:
ConsumeGuard(kd, vd) == kd /= None \/ vd /= None

\* raise(NotImplementedError, "...") raises a tuple: Python 2 raises its
\* first element, Python 3 rejects it with a TypeError
RaiseTupleOutcomes == {"NotImplementedError", "TypeError"}

\* (mutation of DelegatedNumMessages: the shim clamps to the ceiling)
DelegatedNumMessagesClamped(num_messages) ==
    IF num_messages > NumMessagesCeiling THEN NumMessagesCeiling ELSE num_messages

\* the num_messages the shim hands to the native consume
DelegatedNumMessages(num_messages) == num_messages

\* the native consume validates the call before it fetches anything
NativeConsumeCheck(num_messages) ==
    IF closed THEN "RuntimeError"
    ELSE IF num_messages > NumMessagesCeiling THEN "ValueError"
    ELSE "return"

ConsumerConsume(numArgs) ==
    \E num_messages \in numArgs, guardError \in RaiseTupleOutcomes :
        LET args == [NoCall EXCEPT !.op = "consume", !.client = "consumer",
                                   !.num = num_messages]
            passed == DelegatedNumMessages(num_messages)
            nres == NativeConsumeCheck(passed)
        IN
        /\ appPc = "idle"
        /\ IF ConsumeGuard(key_deserializer, value_deserializer)
           THEN /\ lastCall' = [InitCall EXCEPT !.op = "consume", !.result = guardError,
                                                !.args = args]
                /\ UNCHANGED <<appPc, call>>
           ELSE IF nres /= "return"
           THEN /\ lastCall' = [InitCall EXCEPT !.op = "consume", !.result = nres,
                                                !.native = TRUE, !.args = args,
                                                !.nativeNum = passed]
                /\ UNCHANGED <<appPc, call>>
           ELSE /\ appPc' = "consume"
                /\ call' = args
                /\ UNCHANGED lastCall
        /\ UNCHANGED <<hooks, closed, outq, log, events, running, deliveries>>

Min(a, b) == IF a < b THEN a ELSE b

\* the native consume returns up to num_messages messages of the log,
\* fewer when the timeout comes first; the shim returns them unmodified
ConsumerConsumeReturn ==
    /\ appPc = "consume"
    /\ running = {}
    /\ \E n \in 0 .. Min(DelegatedNumMessages(call.num), Len(log)) :
          /\ log' = SubSeq(log, n + 1, Len(log))
          /\ lastCall' = [InitCall EXCEPT
                            !.op = "consume", !.native = TRUE, !.fetched = TRUE,
                            !.args = call, !.nativeNum = DelegatedNumMessages(call.num),
                            !.batch = [i \in 1 .. n |-> DataMessage(log[i])]]
    /\ appPc' = "idle"
    /\ call' = NoCall
    /\ UNCHANGED <<hooks, closed, outq, events, running, deliveries>>

(* ---------------------------- Consumer.close --------------------------- *)
ConsumerClose ==
    /\ appPc = "idle"
    /\ ~closed
    /\ closed' = TRUE
    /\ UNCHANGED <<hooks, outq, log, events, appPc, call, running, deliveries, lastCall>>

(* --------------------------- specifications ---------------------------- *)
\* Codec path: producers and consumers constructed with every combination
\* of instance hooks and no callbacks; no event is ever queued, so the
\* drains inside poll and consume have nothing to serve.
InitCodec ==
    \E ks \in InstanceSerializers, vs \in InstanceSerializers,
       kd \in InstanceDeserializers, vd \in InstanceDeserializers :
        /\ (ks = None) = (kd = None)
        /\ (vs = None) = (vd = None)
        /\ Constructed(ks, vs, kd, vd,
                       NoCallbacks(ProducerKinds), NoCallbacks(ConsumerKinds))

CodecPoll == ConsumerPoll(DeserializerArgs, DeserializerArgs)

CodecPollReturn == ConsumerPollReturn(DeserializerArgs, DeserializerArgs)

CodecConsume == ConsumerConsume(NumMessagesArgs)

ProducerProduce ==
    \E topic \in Topics, value \in AppValues, key \in AppKeys,
       ks_arg \in SerializerArgs, vs_arg \in SerializerArgs :
        Produce(topic, value, key, None, None, ks_arg, vs_arg)

NextCodec ==
    \/ ProducerProduce
    \/ BackgroundTransmit
    \/ CodecPoll
    \/ CodecPollReturn
    \/ CodecConsume
    \/ ConsumerConsumeReturn
    \/ ConsumerClose

Spec == InitCodec /\ [][NextCodec]_vars

\* Callback path: clients constructed without hooks and with or without
\* callbacks; produce() is called with every combination of its two
\* callback arguments, with payloads that pass through or with a call-scoped
\* value or key serializer that raises.
InitDispatch ==
    \E i \in {1, 2} :
        Constructed(None, None, None, None, ProducerCtorArgs[i], ConsumerCtorArgs[i])

\* the events the background thread completes
EmittedEvents == {<<"producer", "error_cb">>, <<"producer", "stats_cb">>,
                  <<"consumer", "on_commit">>, <<"consumer", "stats_cb">>}

DispatchEvent == \E e \in EmittedEvents : BackgroundEvent(e[1], e[2])

DispatchPayloads ==
    {[value |-> Bytes(2), key |-> NonePayload, ks |-> None, vs |-> None],
     [value |-> NonePayload, key |-> NonePayload, ks |-> None, vs |-> "flip"],
     [value |-> Bytes(2), key |-> NonePayload, ks |-> "flip", vs |-> None]}

ProducerProduceWithCallbacks ==
    \E on_delivery \in OnDeliveryArgs, callback \in CallbackArgs,
       row \in DispatchPayloads :
        Produce("t1", row.value, row.key, on_delivery, callback, row.ks, row.vs)

DispatchPoll == ConsumerPoll({None}, {None})

DispatchPollReturn == ConsumerPollReturn({None}, {None})

DispatchConsume == ConsumerConsume({1})

NextDispatch ==
    \/ ProducerProduceWithCallbacks
    \/ ProducerPoll
    \/ ProducerFlush
    \/ ProducerReturn
    \/ BackgroundTransmit
    \/ DispatchEvent
    \/ ServeStart
    \/ ServeFinish
    \/ DispatchPoll
    \/ DispatchPollReturn
    \/ DispatchConsume
    \/ ConsumerConsumeReturn

SpecDispatch == InitDispatch /\ [][NextDispatch]_vars

(* ------------------------------ properties ----------------------------- *)
\* the hook a finished call invoked for a slot, None when it invoked none
HooksOf(c, slot) == SelectSeq(c.hookCalls, LAMBDA h : h.slot = slot)
UsedHook(c, slot) == IF HooksOf(c, slot) = <<>> THEN None ELSE HooksOf(c, slot)[1].hook

IsDataMessage(m) == ~m.none /\ m.error = None

NoDeserializers == key_deserializer = None /\ value_deserializer = None

\* some serializer invoked by the produce() call c raised
SomeSerializerRaised(c) ==
    \E i \in 1 .. Len(c.hookCalls) :
        ~Serialize(c.hookCalls[i].hook, c.hookCalls[i].topic, c.hookCalls[i].arg).ok

\* a step in which a call to one of the ops finishes
Finishes(ops) == lastCall' /= lastCall /\ lastCall'.op \in ops

\* C1: on a consumer constructed with a key or a value deserializer, every
\* consume() fails with NotImplementedError and the native consume is not
\* called.
C1_GuardRaisesNotImplementedError ==
    (lastCall.op = "consume" /\ ~NoDeserializers)
        => (lastCall.result = "NotImplementedError" /\ ~lastCall.native)

\* C2 as stated: without deserializers, consume() with num_messages above
\* one million fails with ValueError and the native consume is not called.
C2_CeilingCheckedBeforeNativeCall ==
    (lastCall.op = "consume" /\ NoDeserializers
        /\ lastCall.args.num > NumMessagesCeiling)
        => (lastCall.result = "ValueError" /\ ~lastCall.native /\ ~lastCall.fetched)

\* C2 amended: on an open consumer without deserializers, consume() with
\* num_messages above one million hands the call, with num_messages as
\* given, to the native consume, which fails it with ValueError before it
\* fetches anything.
C2_CeilingRejectedByNativeConsume ==
    (lastCall.op = "consume" /\ NoDeserializers /\ ~closed
        /\ lastCall.args.num > NumMessagesCeiling)
        => /\ lastCall.result = "ValueError"
           /\ lastCall.native
           /\ lastCall.nativeNum = lastCall.args.num
           /\ ~lastCall.fetched
           /\ lastCall.batch = <<>>

C2_Witness ==
    /\ lastCall.op = "consume"
    /\ lastCall.result = "ValueError"
    /\ lastCall.args.num = 2 * NumMessagesCeiling
    /\ log /= <<>>

\* the callbacks running now all run on the application thread, inside one
\* of the given driving calls on their own client, one at a time
CallbacksOnlyInside(ops) ==
    /\ Cardinality(running) <= 1
    /\ \A r \in running :
          r.thread = "app" /\ appPc \in ops /\ call.client = r.client

AliasedAsClaimed(on_delivery, callback, passed) ==
    /\ (on_delivery /= None /\ callback /= None) => passed = on_delivery
    /\ (on_delivery = None /\ callback /= None) => passed = callback
    /\ (on_delivery /= None /\ callback = None) => passed = on_delivery
    /\ (on_delivery = None /\ callback = None) => passed = None

ReportsWaiting(i) ==
    Len(SelectSeq(events["producer"], LAMBDA e : e.kind = "delivery" /\ e.id = i))

\* C4: the native produce receives on_delivery when both callback arguments
\* are given and callback when only callback is given; the delivery report
\* of a message is delivered once, to that callback, and with both given
\* never to callback.
C4_AliasingAndSingleDelivery ==
    /\ (lastCall.op = "produce" /\ lastCall.native)
          => AliasedAsClaimed(lastCall.args.on_delivery, lastCall.args.callback,
                              lastCall.cb)
    /\ \A i \in DOMAIN deliveries :
          LET d == deliveries[i] IN
          d.state /= "free" =>
            /\ AliasedAsClaimed(d.on_delivery, d.callback, d.cb)
            /\ d.state \in {"queued", "reported"} => d.calls = <<>>
            /\ d.state = "done" => d.calls = <<d.cb>>
            /\ ReportsWaiting(i) = (IF d.state = "reported" THEN 1 ELSE 0)
            /\ (d.on_delivery /= None /\ d.callback /= None)
                  => \A j \in 1 .. Len(d.calls) : d.calls[j] = d.on_delivery
    /\ \A r \in running :
          r.kind = "delivery" =>
            /\ deliveries[r.id].state = "done"
            /\ r.cb = deliveries[r.id].cb

C4_Witness ==
    \E r \in running :
        /\ r.kind = "delivery"
        /\ deliveries[r.id].on_delivery = "dr_on_delivery"
        /\ deliveries[r.id].callback = "dr_callback"
        /\ deliveries[r.id].calls = <<"dr_on_delivery">>

\* the hook a call used for a slot is the call's override when it gave one
\* and the instance hook otherwise
ShadowedBy(used, override, instance) ==
    /\ override /= None => used = override
    /\ override = None => used = instance

\* the key hook of call c returned (so that the value hook was reached)
KeyHookReturned(c) ==
    \A i \in 1 .. Len(c.hookCalls) :
        c.hookCalls[i].slot = "key" =>
            IF c.op = "produce"
            THEN Serialize(c.hookCalls[i].hook, c.hookCalls[i].topic, c.hookCalls[i].arg).ok
            ELSE Deserialize(c.hookCalls[i].hook, c.hookCalls[i].topic, c.hookCalls[i].arg).ok

\* C5: a produce() or poll() call uses its call-scoped key or value hook
\* instead of the instance hook for that slot, and the instance hook when it
\* gives none; no call changes the instance hooks.
C5_OverrideShadowsWithoutMutation ==
    [][ /\ key_serializer' = key_serializer
        /\ value_serializer' = value_serializer
        /\ key_deserializer' = key_deserializer
        /\ value_deserializer' = value_deserializer
        /\ Finishes({"produce"}) =>
             /\ ShadowedBy(UsedHook(lastCall', "key"), lastCall'.args.kh, key_serializer)
             /\ KeyHookReturned(lastCall') =>
                  ShadowedBy(UsedHook(lastCall', "value"), lastCall'.args.vh,
                             value_serializer)
        /\ (Finishes({"poll"}) /\ IsDataMessage(lastCall'.raw)) =>
             /\ ShadowedBy(UsedHook(lastCall', "key"), lastCall'.args.kh, key_deserializer)
             /\ KeyHookReturned(lastCall') =>
                  ShadowedBy(UsedHook(lastCall', "value"), lastCall'.args.vh,
                             value_deserializer)
      ]_vars

C5_Witness ==
    /\ lastCall.op = "produce"
    /\ lastCall.result = "return"
    /\ lastCall.args.kh = None /\ key_serializer = "shift"
    /\ lastCall.args.vh = "flip" /\ value_serializer = "shift"
    /\ UsedHook(lastCall, "key") = "shift"
    /\ UsedHook(lastCall, "value") = "flip"

\* C6: when the native poll returns None or a message whose error() is set,
\* poll() invokes no deserializer and returns the native result unmodified.
C6_NoDeserializerOnNullOrError ==
    (lastCall.op = "poll" /\ lastCall.result /= "RuntimeError"
        /\ ~IsDataMessage(lastCall.raw))
        => /\ lastCall.hookCalls = <<>>
           /\ lastCall.result = "return"
           /\ lastCall.out = lastCall.raw

C6_Witness ==
    /\ lastCall.op = "poll"
    /\ lastCall.raw = ErrorEvent
    /\ lastCall.out = ErrorEvent
    /\ key_deserializer /= None
    /\ lastCall.args.vh /= None

\* C7: when a serializer resolved by produce() raises, the call fails with
\* that error, the native produce is not called, and nothing is enqueued or
\* registered for the message.
C7_RaisingSerializerNeverEnqueues ==
    [][ (Finishes({"produce"}) /\ SomeSerializerRaised(lastCall')) =>
            /\ lastCall'.result = "SerializerRaised"
            /\ ~lastCall'.native
            /\ lastCall'.cb = None
            /\ outq' = outq
            /\ deliveries' = deliveries
            /\ events' = events
      ]_vars

C7_Witness ==
    /\ lastCall.op = "produce"
    /\ lastCall.result = "SerializerRaised"
    /\ lastCall.args.on_delivery /= None
    /\ UsedHook(lastCall, "value") = "flip"
    /\ FreeSlots /= {}

\* C8: an event of a kind whose callback was given to the constructor is
\* delivered to that callback when a poll or flush takes it off the queue.
C8_CtorCallbacksServed ==
    [][ (/\ appPc \in ServingCalls
         /\ events[call.client] /= <<>>
         /\ events'[call.client] = Tail(events[call.client])
         /\ Head(events[call.client]).kind /= "delivery"
         /\ ctorArgs[call.client][Head(events[call.client]).kind] /= None)
        => \E r \in running' :
              r.cb = ctorArgs[call.client][Head(events[call.client]).kind]
      ]_vars

\* one slot of a returned message went through an inverse pair of codecs
RoundTrips(s, d, topic, original, carried, returned) ==
    (s /= None /\ d /= None /\ IsInverse(s, d, topic)
        /\ carried = Serialize(s, topic, original).val)
        => returned = original

\* C9: a message produced through serializer S and returned by poll()
\* through a deserializer D that is the inverse of S on the topic carries
\* the value, and the key, the producer was given.
C9_CodecRoundTrip ==
    (lastCall.op = "poll" /\ lastCall.result = "return" /\ IsDataMessage(lastCall.raw))
        => /\ RoundTrips(lastCall.origin.vs, UsedHook(lastCall, "value"),
                         lastCall.raw.topic, lastCall.origin.ovalue,
                         lastCall.raw.value, lastCall.out.value)
           /\ RoundTrips(lastCall.origin.ks, UsedHook(lastCall, "key"),
                         lastCall.raw.topic, lastCall.origin.okey,
                         lastCall.raw.key, lastCall.out.key)

C9_Witness ==
    /\ lastCall.op = "poll"
    /\ lastCall.result = "return"
    /\ IsDataMessage(lastCall.raw)
    /\ lastCall.origin.vs = "shift" /\ UsedHook(lastCall, "value") = "unshift"
    /\ lastCall.origin.ks = "flip" /\ UsedHook(lastCall, "key") = "flip"
    /\ lastCall.raw.topic = "t1"
    /\ lastCall.out.value = Obj(0)
    /\ lastCall.out.key = Obj(1)
    /\ lastCall.raw.value /= lastCall.raw.key

\* C10: on a closed consumer every poll() and every consume() fails with
\* RuntimeError.
C10_ClosedConsumerRaisesRuntimeError ==
    [][ (closed /\ Finishes({"poll", "consume"})) => lastCall'.result = "RuntimeError" ]_vars

====
